---- MODULE Spec2Model ----
(***************************************************************************)
(* A model of the AIS vessel tracker: the ingestion loop of main.py        *)
(* (connect_ais_stream), the two tables of database.py and the query       *)
(* handlers of main.py (api_positions, api_geofence) with the queries of   *)
(* database.py they call.                                                  *)
(*                                                                         *)
(* Conventions.  An SQL NULL, a Python None and a JSON key that .get()     *)
(* does not find are Null (the empty tuple); a present value v is <<v>>.   *)
(* A timestamp is a number of seconds: sqlite stores the ISO text of the   *)
(* datetime and compares texts, which for the texts of one format orders   *)
(* them as the instants are ordered.  Names and search terms are tuples of *)
(* characters.  position_reports.id (the AUTOINCREMENT key) is left out:   *)
(* the code uses it for row identity only, which a set of rows has.        *)
(***************************************************************************)
EXTENDS Integers, Sequences, FiniteSets, TLC

VARIABLES
    ships,             \* table ships: UserID -> [Name, IMO, CallSign, ShipType]
    position_reports,  \* table position_reports: a set of rows
    pc,                \* where connect_ais_stream is
    message_counter,   \* its local message_counter
    last,              \* what its latest step did
    conn_faults,       \* in the message loop: 0 no message fault yet, 1 one was
                       \* caught, 2 a message was handled after one
    api_pc,            \* where the request handler is
    api_req,           \* the request it is serving, with end_time once read
    api_result,        \* the response it has computed
    api_locals         \* get_filtered_routes between its statements: the
                       \* blacklist zones read and the sets built so far

vars == <<ships, position_reports, pc, message_counter, last, conn_faults,
          api_pc, api_req, api_result, api_locals>>

store == <<ships, position_reports>>
ingester == <<pc, message_counter, last, conn_faults>>
api == <<api_pc, api_req, api_result, api_locals>>

----------------------------------------------------------------------------
(* Bounds of the model *)

MaxShip == 1
MaxReports == 2
MaxMessages == 1

Null == <<>>
Some(v) == <<v>>
Val(o) == o[1]

ShipIds == 1..MaxShip

\* "rn <= 10" of get_latest_positions_in_bounds
TrailCap == 10

\* calculate_bearing(lat1, lon1, lat2, lon2): the forward azimuth of the two
\* points, kept as the call (the model has no trigonometry); a heading of 0
\* for a trail of one point is Null.
calculate_bearing(lat1, lon1, lat2, lon2) == <<lat1, lon1, lat2, lon2>>

----------------------------------------------------------------------------
(* database.py: the two write operations *)

Row(name, imo, callsign, ship_type) ==
    [Name |-> name, IMO |-> imo, CallSign |-> callsign, ShipType |-> ship_type]

\* The upsert without its WHERE clause.
upsert_ship_info_unconditional(tbl, user_id, name, imo, callsign, ship_type) ==
    [u \in DOMAIN tbl \cup {user_id} |->
        IF u = user_id THEN Row(name, imo, callsign, ship_type) ELSE tbl[u]]

\* INSERT ... ON CONFLICT(UserID) DO UPDATE SET <all four columns>
\*   WHERE excluded.Name IS NOT NULL OR excluded.IMO IS NOT NULL
upsert_ship_info(tbl, user_id, name, imo, callsign, ship_type) ==
    IF user_id \notin DOMAIN tbl
    THEN (user_id :> Row(name, imo, callsign, ship_type)) @@ tbl
    ELSE IF name # Null \/ imo # Null
         THEN [tbl EXCEPT ![user_id] = Row(name, imo, callsign, ship_type)]
         ELSE tbl

Report(timestamp, ship_id, latitude, longitude) ==
    [timestamp |-> timestamp, ShipID |-> ship_id,
     Latitude |-> latitude, Longitude |-> longitude]

\* Whether a row of tbl has this (timestamp, ShipID): UNIQUE(timestamp, ShipID)
Conflicts(tbl, timestamp, ship_id) ==
    \E r \in tbl : r.timestamp = timestamp /\ r.ShipID = ship_id

\* An insert that keeps only each entity's newest report.
insert_position_report_keep_latest(tbl, timestamp, ship_id, latitude, longitude) ==
    {r \in tbl : r.ShipID # ship_id \/ r.timestamp > timestamp}
    \cup {Report(timestamp, ship_id, latitude, longitude)}

\* INSERT OR REPLACE: the conflicting row is replaced by the new one.
insert_or_replace_position_report(tbl, timestamp, ship_id, latitude, longitude) ==
    {r \in tbl : ~(r.timestamp = timestamp /\ r.ShipID = ship_id)}
        \cup {Report(timestamp, ship_id, latitude, longitude)}

\* INSERT OR IGNORE INTO position_reports (timestamp, ShipID, Latitude, Longitude)
insert_position_report(tbl, timestamp, ship_id, latitude, longitude) ==
    IF Conflicts(tbl, timestamp, ship_id)
    THEN tbl
    ELSE tbl \cup {Report(timestamp, ship_id, latitude, longitude)}

----------------------------------------------------------------------------
(* database.py: levenshtein_distance and the text match of the queries *)

Min2(a, b) == IF a < b THEN a ELSE b
Min3(a, b, c) == Min2(a, Min2(b, c))

\* levenshtein_distance(s1, s2): the row-by-row dynamic programme.  Row i is
\* a function on 0..Len(s2); previous_row starts as 0, 1, ..., Len(s2).
RECURSIVE LevRows(_, _, _, _)
LevRows(s1, s2, i, previous_row) ==
    IF i > Len(s1) THEN previous_row
    ELSE LET current_row[j \in 0..Len(s2)] ==
                 IF j = 0 THEN i
                 ELSE Min3(previous_row[j] + 1,                  \* insertions
                           current_row[j - 1] + 1,               \* deletions
                           previous_row[j - 1]
                               + (IF s1[i] # s2[j] THEN 1 ELSE 0)) \* substitutions
         IN  LevRows(s1, s2, i + 1, current_row)

levenshtein_distance(s1, s2) ==
    LET a == IF Len(s1) < Len(s2) THEN s2 ELSE s1
        b == IF Len(s1) < Len(s2) THEN s1 ELSE s2
    IN  IF Len(b) = 0 THEN Len(a)
        ELSE LevRows(a, b, 1, [j \in 0..Len(b) |-> j])[Len(b)]

\* str.lower() on the characters the model uses
LowerChar(c) == IF c = "A" THEN "a" ELSE IF c = "B" THEN "b" ELSE c
lower(str) == [k \in 1..Len(str) |-> LowerChar(str[k])]

\* str(user_id) for the identifiers the model uses
Digit(d) == IF d = 0 THEN "0" ELSE IF d = 1 THEN "1" ELSE IF d = 2 THEN "2"
            ELSE IF d = 3 THEN "3" ELSE IF d = 4 THEN "4" ELSE IF d = 5 THEN "5"
            ELSE IF d = 6 THEN "6" ELSE IF d = 7 THEN "7" ELSE IF d = 8 THEN "8"
            ELSE "9"
str(n) == IF n < 10 THEN <<Digit(n)>> ELSE <<Digit(n \div 10), Digit(n % 10)>>

\* Python's "sub in text"
Contains(text, sub) ==
    \E k \in 0..(Len(text) - Len(sub)) :
        \A j \in 1..Len(sub) : text[k + j] = sub[j]

\* threshold = min(3, len(search_term) // 4 + 1)
Threshold(search_term) == Min2(3, Len(search_term) \div 4 + 1)

----------------------------------------------------------------------------
(* database.py: the read operations *)

\* The comparison without its end points.
BetweenOpen(x, lo, hi) == lo < x /\ x < hi

\* "x BETWEEN lo AND hi"
Between(x, lo, hi) == lo <= x /\ x <= hi

\* bounds = [sw_lat, sw_lon, ne_lat, ne_lon];
\* "Latitude BETWEEN sw_lat AND ne_lat AND Longitude BETWEEN sw_lon AND ne_lon"
InBounds(r, bounds) ==
    /\ Between(r.Latitude, bounds[1], bounds[3])
    /\ Between(r.Longitude, bounds[2], bounds[4])

\* "position_reports pr LEFT JOIN ships s": every report, with or without a
\* ships row.
LeftJoinShips(tbl, reports) == reports

\* "position_reports pr JOIN ships s ON pr.ShipID = s.UserID": the reports
\* of the entities that have a ships row.
JoinShips(tbl, reports) == {r \in reports : r.ShipID \in DOMAIN tbl}

\* s.Name of a joined row.
ShipName(tbl, id) == IF id \in DOMAIN tbl THEN tbl[id].Name ELSE Null

\* (ShipID, timestamp) IN (SELECT ShipID, MAX(timestamp) ... GROUP BY ShipID)
IsLatestOfShip(reports, r) ==
    \A q \in reports : q.ShipID = r.ShipID => q.timestamp <= r.timestamp

\* ORDER BY ShipID, timestamp DESC
RowBeforeNewestFirst(r, q) ==
    r.ShipID < q.ShipID \/ (r.ShipID = q.ShipID /\ r.timestamp >= q.timestamp)

\* ORDER BY ShipID, timestamp ASC
RowBefore(r, q) ==
    r.ShipID < q.ShipID \/ (r.ShipID = q.ShipID /\ r.timestamp <= q.timestamp)

RECURSIVE OrderRows(_)
OrderRows(rows) ==
    IF rows = {} THEN <<>>
    ELSE LET first == CHOOSE r \in rows : \A q \in rows : RowBefore(r, q)
         IN  <<first>> \o OrderRows(rows \ {first})

\* The keys of the routes dict, in the order the rows first name them.
RECURSIVE RouteIds(_)
RouteIds(rows) ==
    IF rows = <<>> THEN <<>>
    ELSE LET id == Head(rows).ShipID
             Other(r) == r.ShipID # id
         IN  <<id>> \o RouteIds(SelectSeq(Tail(rows), Other))

RowsOf(rows, id) == LET Mine(r) == r.ShipID = id IN SelectSeq(rows, Mine)

\* get_latest_entry_details: the timestamp of
\* "ORDER BY timestamp DESC LIMIT 1", None when the table is empty.
get_latest_entry_details(reports) ==
    IF reports = {} THEN Null
    ELSE Some(CHOOSE t \in {r.timestamp : r \in reports} :
                \A r \in reports : r.timestamp <= t)

\* The values bound to the placeholders of get_latest_positions_in_bounds, in
\* the order of the params list: the seven of line 49 and, with a search term,
\* the three line 54 appends.
TsParam(t) == [ty |-> "timestamp", v |-> t]
NumParam(n) == [ty |-> "number", v |-> n]
TextParam(x) == [ty |-> "text", v |-> x]

PositionsParams(start_time, end_time, bounds, search_term) ==
    <<TsParam(start_time), TsParam(end_time), NumParam(bounds[1]),
      NumParam(bounds[3]), NumParam(bounds[2]), NumParam(bounds[4]),
      TsParam(end_time)>>
    \o (IF search_term # <<>>
        THEN <<TextParam(search_term), NumParam(Threshold(search_term)),
               TextParam(<<"%">> \o search_term \o <<"%">>)>>
        ELSE <<>>)

\* sqlite's "timestamp <= ?" for a stored timestamp (the ISO text of an
\* instant, which starts with a digit): against the text of an instant, the
\* order of the instants; against a LIKE pattern, which starts with "%",
\* false, "%" sorting before every digit; against a number, false, a number
\* sorting before every text.
TimestampLeq(timestamp, param) ==
    param.ty = "timestamp" /\ timestamp <= param.v

\* sqlite's "? <= timestamp"
TimestampGeq(timestamp, param) ==
    IF param.ty = "timestamp" THEN param.v <= timestamp ELSE TRUE

\* sqlite's "levenshtein(s.Name, ?) <= ?" for a name that is not NULL: the
\* function's integer against the bound value; an integer sorts before
\* every text.
DistanceLeq(name, text_param, limit_param) ==
    IF limit_param.ty = "number"
    THEN levenshtein_distance(name,
            IF text_param.ty = "text" THEN text_param.v ELSE <<>>) <= limit_param.v
    ELSE TRUE

\* sqlite's "s.UserID LIKE ?": against a number, its decimal text with no
\* wildcard, so equality; against a "%term%" pattern, containment.
UserIdLike(user_id, param) ==
    IF param.ty = "number" THEN str(user_id) = str(param.v)
    ELSE Contains(str(user_id), SubSeq(param.v, 2, Len(param.v) - 1))

\* get_latest_positions_in_bounds.  The statement's placeholders take the
\* params in order: 1-2 the window, 3-6 the box, then, with a search term,
\* 7-9 the search clause, and last the trail's "timestamp <= ?".
\* The result is [error |-> TRUE] when the statement raises (levenshtein on a
\* NULL name), else the rows fetched and the list built from them.
get_latest_positions_in_bounds(tbl, reports, start_time, end_time, bounds, search_term) ==
    LET params == PositionsParams(start_time, end_time, bounds, search_term)
        searching == search_term # <<>>
        trail_param == IF searching THEN params[10] ELSE params[7]
        \* the rows of pr JOIN s that pass the conjuncts before the search clause
        Candidates ==
            {r \in JoinShips(tbl, reports) :
                /\ IsLatestOfShip(reports, r)
                /\ TimestampGeq(r.timestamp, params[1])
                /\ TimestampLeq(r.timestamp, params[2])
                /\ Between(r.Latitude, params[3].v, params[4].v)
                /\ Between(r.Longitude, params[5].v, params[6].v)}
        raises == searching /\ \E r \in Candidates : ShipName(tbl, r.ShipID) = Null
        ShipsInView ==
            {r.ShipID : r \in
                {c \in Candidates :
                    ~searching
                    \/ DistanceLeq(Val(ShipName(tbl, c.ShipID)), params[7], params[8])
                    \/ UserIdLike(c.ShipID, params[9])}}
        Trailing ==
            {r \in JoinShips(tbl, reports) :
                /\ r.ShipID \in ShipsInView
                /\ TimestampLeq(r.timestamp, trail_param)}
        rn(r) == Cardinality({q \in Trailing :
                    q.ShipID = r.ShipID /\ q.timestamp >= r.timestamp})
        rows == OrderRows({r \in Trailing : rn(r) <= TrailCap})
        ids == RouteIds(rows)
        Entry(id) ==
            LET trail == RowsOf(rows, id)
                latest_point == trail[Len(trail)]
            IN  [id |-> id, name |-> ShipName(tbl, id),
                 lat |-> latest_point.Latitude, lon |-> latest_point.Longitude,
                 ts |-> latest_point.timestamp,
                 heading |-> IF Len(trail) > 1
                             THEN calculate_bearing(trail[Len(trail) - 1].Latitude,
                                                    trail[Len(trail) - 1].Longitude,
                                                    latest_point.Latitude,
                                                    latest_point.Longitude)
                             ELSE <<0>>,
                 trail |-> [k \in 1..Len(trail) |->
                              <<trail[k].Latitude, trail[k].Longitude>>]]
    IN  IF raises THEN [error |-> TRUE, rows |-> <<>>, body |-> <<>>]
        ELSE [error |-> FALSE, rows |-> rows,
              body |-> [k \in 1..Len(ids) |-> Entry(ids[k])]]

\* A zone is a record with a bounds field.
InZone(r, zone) == InBounds(r, zone.bounds)

\* get_filtered_routes, lines 99-104: one SELECT DISTINCT ShipID per
\* blacklist zone, the results united.
BlacklistedShipIds(reports, blacklist_zones) ==
    {r.ShipID : r \in
        {q \in reports :
            \E k \in 1..Len(blacklist_zones) : InZone(q, blacklist_zones[k])}}

\* The whitelist with the zones' conditions joined by OR.
WhitelistedInAnyZone(reports, whitelist_zones) ==
    {r.ShipID : r \in
        {q \in reports :
            \E k \in 1..Len(whitelist_zones) : InZone(q, whitelist_zones[k])}}

\* get_filtered_routes, lines 105-115:
\* GROUP BY ShipID HAVING SUM(CASE WHEN <in zone 1> ...) > 0 AND ... ; the
\* empty set when no whitelist zone is given.
WhitelistedShipIds(reports, whitelist_zones) ==
    IF whitelist_zones # <<>>
    THEN {id \in {r.ShipID : r \in reports} :
            \A k \in 1..Len(whitelist_zones) :
                \E r \in reports : r.ShipID = id /\ InZone(r, whitelist_zones[k])}
    ELSE {}

\* The eligible set with the blacklist taken off the whitelist only.
EligibleUnlessWhitelisted(tbl, whitelist_zones, whitelisted_ship_ids, blacklisted_ship_ids) ==
    IF whitelist_zones # <<>>
    THEN whitelisted_ship_ids \ blacklisted_ship_ids
    ELSE DOMAIN tbl

\* get_filtered_routes, lines 116-124: final_ship_ids before the text filter.
EligibleShipIds(tbl, whitelist_zones, whitelisted_ship_ids, blacklisted_ship_ids) ==
    IF whitelist_zones # <<>>
    THEN whitelisted_ship_ids \ blacklisted_ship_ids
    ELSE DOMAIN tbl \ blacklisted_ship_ids

\* get_filtered_routes from its last statement on (lines 141-151): the rows
\* of the final ids inside the window, and the list built from them.
RoutesOf(tbl, reports, start_time, end_time, final_ship_ids) ==
    LET rows ==
            OrderRows({r \in JoinShips(tbl, reports) :
                /\ r.ShipID \in final_ship_ids
                /\ Between(r.timestamp, start_time, end_time)})
        ids == RouteIds(rows)
        Entry(id) ==
            LET trail == RowsOf(rows, id)
            IN  [id |-> id, name |-> ShipName(tbl, id),
                 trail |-> [k \in 1..Len(trail) |->
                              <<trail[k].Latitude, trail[k].Longitude>>]]
    IN  [rows |-> rows, body |-> [k \in 1..Len(ids) |-> Entry(ids[k])]]

\* get_filtered_routes.  The result carries the function's sets beside the
\* list it returns.
get_filtered_routes(tbl, reports, start_time, end_time, search_term, whitelist_zones, blacklist_zones) ==
    LET blacklisted_ship_ids == BlacklistedShipIds(reports, blacklist_zones)
        whitelisted_ship_ids == WhitelistedShipIds(reports, whitelist_zones)
        eligible == EligibleShipIds(tbl, whitelist_zones, whitelisted_ship_ids,
                                    blacklisted_ship_ids)
        threshold == Threshold(search_term)
        matching_ids ==
            {id \in eligible \cap DOMAIN tbl :
                \/ Contains(str(id), search_term)
                \/ /\ tbl[id].Name # Null
                   /\ Val(tbl[id].Name) # <<>>
                   /\ levenshtein_distance(lower(Val(tbl[id].Name)),
                                           lower(search_term)) <= threshold}
        final_ship_ids ==
            IF eligible # {} /\ search_term # <<>> THEN matching_ids ELSE eligible
        routes == RoutesOf(tbl, reports, start_time, end_time, final_ship_ids)
    IN  [blacklisted_ship_ids |-> blacklisted_ship_ids,
         whitelisted_ship_ids |-> whitelisted_ship_ids,
         final_ship_ids |-> final_ship_ids,
         rows |-> routes.rows,
         body |-> routes.body]

----------------------------------------------------------------------------
(* main.py: the messages of the stream, as json.loads and the handler's    *)
(* key lookups see them.  A required key that is absent is Null here (the  *)
(* lookup raises KeyError); an optional one (.get) is Null when absent.    *)

BadJson == [shape |-> "badjson"]        \* json.loads raises
NoType == [shape |-> "notype"]          \* no "MessageType" key
OtherMsg == [shape |-> "other"]         \* a MessageType the handler has no branch for

StaticMsg(uid, name, imo, callsign, ship_type) ==
    [shape |-> "ShipStaticData", UserID |-> uid, Name |-> name, IMO |-> imo,
     CallSign |-> callsign, ShipType |-> ship_type]

PositionMsg(uid, time_utc, lat, lon) ==
    [shape |-> "PositionReport", UserID |-> uid, time_utc |-> time_utc,
     Latitude |-> lat, Longitude |-> lon]

\* The text of MetaData.time_utc: one the parser reads as the instant t, or
\* one datetime.fromisoformat rejects.
AisTime(t) == [form |-> "ais", instant |-> t]
Garbled == [form |-> "garbled"]

\* A fallback to a fixed instant in place of the clock.
parse_ais_timestamp_or_epoch(timestamp_str, now) ==
    IF timestamp_str.form = "ais" THEN timestamp_str.instant ELSE 0

\* parse_ais_timestamp: the instant of the text; on any exception, the
\* current time.
parse_ais_timestamp(timestamp_str, now) ==
    IF timestamp_str.form = "ais" THEN timestamp_str.instant ELSE now

\* Whether handling m raises before it reaches the store.
RaisesBeforeWrite(m) ==
    \/ m.shape \in {"badjson", "notype"}
    \/ m.shape = "ShipStaticData" /\ m.UserID = Null
    \/ m.shape = "PositionReport"
          /\ (m.time_utc = Null \/ m.UserID = Null \/ m.Latitude = Null
                \/ m.Longitude = Null)

Writes(m) == m.shape \in {"ShipStaticData", "PositionReport"} /\ ~RaisesBeforeWrite(m)

\* The tables after the write of m commits.
ShipsAfter(m) ==
    IF m.shape = "ShipStaticData"
    THEN upsert_ship_info(ships, Val(m.UserID), m.Name, m.IMO, m.CallSign, m.ShipType)
    ELSE ships

ReportsAfter(m, now) ==
    IF m.shape = "PositionReport"
    THEN insert_position_report(position_reports,
                                parse_ais_timestamp(Val(m.time_utc), now),
                                Val(m.UserID), Val(m.Latitude), Val(m.Longitude))
    ELSE position_reports

Outcome(m, now) ==
    IF m.shape = "ShipStaticData"
    THEN IF Val(m.UserID) \notin DOMAIN ships THEN "ship_inserted"
         ELSE IF ShipsAfter(m) = ships THEN "ship_kept" ELSE "ship_updated"
    ELSE IF m.shape = "PositionReport"
    THEN IF ReportsAfter(m, now) # position_reports THEN "report_inserted"
         ELSE IF Report(parse_ais_timestamp(Val(m.time_utc), now), Val(m.UserID),
                        Val(m.Latitude), Val(m.Longitude)) \in position_reports
         THEN "duplicate_ignored"
         ELSE "conflict_ignored"
    ELSE "no_op"

\* The same fault leaving the message loop, as if it were not caught there.
MessageFaultEscapes ==
    /\ pc' = "sleep"
    /\ last' = "fault"
    /\ conn_faults' = 0
    /\ UNCHANGED <<ships, position_reports, message_counter>>

\* The except branch of the message loop (main.py:125): the error is printed
\* and the loop takes the next message.
MessageFault ==
    /\ pc' = "recv"
    /\ last' = "fault"
    /\ conn_faults' = 1
    /\ UNCHANGED <<ships, position_reports, message_counter>>

\* One pass of the body of "async for message_json in websocket" for the
\* message m; write_ok is whether sqlite carries the write out (it can raise:
\* a locked database, an I/O error), now the wall clock.
Handle(m, write_ok, now) ==
    /\ pc = "recv"
    /\ message_counter < MaxMessages
    /\ IF RaisesBeforeWrite(m) \/ (Writes(m) /\ ~write_ok)
       THEN MessageFault
       ELSE /\ Cardinality(ReportsAfter(m, now)) <= MaxReports
            /\ ships' = ShipsAfter(m)
            /\ position_reports' = ReportsAfter(m, now)
            /\ message_counter' = message_counter + 1
            /\ last' = Outcome(m, now)
            /\ conn_faults' = IF conn_faults = 0 THEN 0 ELSE 2
            /\ pc' = "recv"
    /\ UNCHANGED api

\* The choices that matter for m: the write's fate when m writes, the clock
\* when its timestamp does not parse.
ReadsClock(m) ==
    m.shape = "PositionReport" /\ m.time_utc # Null /\ Val(m.time_utc).form # "ais"

HandleMessage(msgs, nows) ==
    \E m \in msgs :
        \E write_ok \in (IF Writes(m) THEN BOOLEAN ELSE {TRUE}),
           now \in (IF ReadsClock(m) THEN nows ELSE {0}) :
            Handle(m, write_ok, now)

----------------------------------------------------------------------------
(* main.py: connect_ais_stream outside the message loop *)

\* database.init_db() and message_counter = 0: the tables are created if
\* they do not exist, their rows are kept.
Start ==
    /\ pc = "start"
    /\ pc' = "connect"
    /\ message_counter' = 0
    /\ last' = "started"
    /\ UNCHANGED <<ships, position_reports, conn_faults, api>>

\* websockets.connect(...): the connection opens, or raises.
Connect ==
    /\ pc = "connect"
    /\ \/ pc' = "subscribe" /\ last' = "connected"
       \/ pc' = "sleep" /\ last' = "connect_failed"
    /\ conn_faults' = 0
    /\ UNCHANGED <<ships, position_reports, message_counter, api>>

\* websocket.send(json.dumps(subscription)): sent, or the connection fails.
Subscribe ==
    /\ pc = "subscribe"
    /\ \/ pc' = "recv" /\ last' = "subscribed"
       \/ pc' = "sleep" /\ last' = "subscribe_failed"
    /\ UNCHANGED <<ships, position_reports, message_counter, conn_faults, api>>

\* The same failure with no handler around the connection: the coroutine ends.
ConnectionErrorUncaught ==
    /\ pc = "recv"
    /\ pc' = "stopped"
    /\ last' = "connection_error"
    /\ conn_faults' = 0
    /\ UNCHANGED <<ships, position_reports, message_counter, api>>

\* The connection fails while the loop waits for a message: the iterator
\* raises ConnectionClosedError, caught by the outer except.
ConnectionError ==
    /\ pc = "recv"
    /\ pc' = "sleep"
    /\ last' = "connection_error"
    /\ conn_faults' = 0
    /\ UNCHANGED <<ships, position_reports, message_counter, api>>

\* The server closes the connection normally: the iterator ends without an
\* exception, the "async with" block is left and "while True" goes round.
ConnectionClosedOK ==
    /\ pc = "recv"
    /\ pc' = "connect"
    /\ last' = "closed_ok"
    /\ conn_faults' = 0
    /\ UNCHANGED <<ships, position_reports, message_counter, api>>

\* await asyncio.sleep(10) returns.
Backoff ==
    /\ pc = "sleep"
    /\ pc' = "connect"
    /\ last' = "slept"
    /\ UNCHANGED <<ships, position_reports, message_counter, conn_faults, api>>

\* The process is stopped and started again: ais_data.db keeps its rows,
\* everything in memory is gone.
Restart ==
    /\ pc' = "start"
    /\ message_counter' = 0
    /\ last' = "restarted"
    /\ conn_faults' = 0
    /\ api_pc' = "idle"
    /\ api_req' = Null
    /\ api_result' = Null
    /\ api_locals' = Null
    /\ UNCHANGED <<ships, position_reports>>

----------------------------------------------------------------------------
(* main.py: the request handlers.  A handler reads the latest timestamp     *)
(* with one call of database.py and runs its query with another: each call  *)
(* opens its own connection, and the ingestion loop, in its own thread,     *)
(* can write between the two.                                               *)

\* timedelta(hours=hours), in seconds
Hours(hours) == hours * 3600

\* end_time = latest_ts if latest_ts else datetime.now(timezone.utc)
EndTime(latest_ts, now) == IF latest_ts # Null THEN Val(latest_ts) ELSE now

ErrorResponse(status) == [status |-> status, body |-> <<>>]

\* api_positions up to and including get_latest_entry_details.  bounds_str is
\* the "bounds" argument: missing (400), not four numbers (float() raises:
\* 500), or a box.
ApiPositionsBegin(bounds_strs, hours_set, searches, nows) ==
    /\ api_pc = "idle"
    /\ \E bounds_str \in bounds_strs :
        IF bounds_str.form = "missing"
        THEN /\ api_pc' = "respond"
             /\ api_req' = Null
             /\ api_result' = Some(ErrorResponse(400))
             /\ api_locals' = Null
        ELSE IF bounds_str.form = "malformed"
        THEN /\ api_pc' = "respond"
             /\ api_req' = Null
             /\ api_result' = Some(ErrorResponse(500))
             /\ api_locals' = Null
        ELSE \E hours \in hours_set, search \in searches :
             \E now \in (IF position_reports = {} THEN nows ELSE {0}) :
                LET end_time == EndTime(get_latest_entry_details(position_reports), now)
                IN  /\ api_pc' = "positions_query"
                    /\ api_req' = Some([bounds |-> bounds_str.box, search |-> search,
                                        start_time |-> end_time - Hours(hours),
                                        end_time |-> end_time])
                    /\ api_result' = Null
                    /\ api_locals' = Null
    /\ UNCHANGED <<ships, position_reports, ingester>>

\* api_positions: database.get_latest_positions_in_bounds and jsonify; an
\* exception of the query is answered with status 500.
ApiPositionsQuery ==
    /\ api_pc = "positions_query"
    /\ LET req == Val(api_req)
           got == get_latest_positions_in_bounds(ships, position_reports,
                      req.start_time, req.end_time, req.bounds, req.search)
       IN  api_result' = IF got.error THEN Some(ErrorResponse(500))
                         ELSE Some([status |-> 200, body |-> got.body,
                                    rows |-> got.rows])
    /\ api_pc' = "respond"
    /\ api_locals' = Null
    /\ UNCHANGED <<ships, position_reports, ingester, api_req>>

\* api_geofence up to and including get_latest_entry_details.
\* A body whose "hours" is no number makes int() raise: status 500.
ApiGeofenceBegin(whitelists, blacklists, hours_set, nows) ==
    /\ api_pc = "idle"
    /\ \/ /\ api_pc' = "respond"
          /\ api_req' = Null
          /\ api_result' = Some(ErrorResponse(500))
          /\ api_locals' = Null
       \/ /\ \E whitelist \in whitelists, blacklist \in blacklists,
                hours \in hours_set :
             \E now \in (IF position_reports = {} THEN nows ELSE {0}) :
                LET end_time ==
                        EndTime(get_latest_entry_details(position_reports), now)
                IN  api_req' = Some([whitelist |-> whitelist, blacklist |-> blacklist,
                                     start_time |-> end_time - Hours(hours),
                                     end_time |-> end_time])
          /\ api_pc' = "geofence_query"
          /\ api_result' = Null
          /\ api_locals' = Null
    /\ UNCHANGED <<ships, position_reports, ingester>>

\* api_geofence: database.get_filtered_routes with an empty search term, and
\* jsonify.
ApiGeofenceQuery ==
    /\ api_pc = "geofence_query"
    /\ LET req == Val(api_req)
           got == get_filtered_routes(ships, position_reports, req.start_time,
                      req.end_time, <<>>, req.whitelist, req.blacklist)
       IN  api_result' = Some([status |-> 200, body |-> got.body, rows |-> got.rows,
                               blacklisted_ship_ids |-> got.blacklisted_ship_ids,
                               whitelisted_ship_ids |-> got.whitelisted_ship_ids,
                               final_ship_ids |-> got.final_ship_ids])
    /\ api_pc' = "respond"
    /\ api_locals' = Null
    /\ UNCHANGED <<ships, position_reports, ingester, api_req>>

\* get_filtered_routes inside api_geofence, statement by statement.  The
\* connection runs no transaction: each SELECT reads the table as it is when
\* the statement runs, and the ingestion loop can commit between two of them.

ZonesRead == IF api_locals = Null THEN 0 ELSE Val(api_locals).zones_read

BlacklistedSoFar ==
    IF api_locals = Null THEN {} ELSE Val(api_locals).blacklisted_ship_ids

\* Lines 100-104: the SELECT DISTINCT ShipID of the next blacklist zone.
GeofenceBlacklistRead ==
    /\ api_pc = "geofence_query"
    /\ ZonesRead < Len(Val(api_req).blacklist)
    /\ api_locals' =
        Some([zones_read |-> ZonesRead + 1,
              blacklisted_ship_ids |->
                BlacklistedSoFar \cup
                BlacklistedShipIds(position_reports,
                                   <<Val(api_req).blacklist[ZonesRead + 1]>>)])
    /\ UNCHANGED <<ships, position_reports, ingester, api_pc, api_req, api_result>>

\* Lines 105-125: the whitelist statement, or "SELECT DISTINCT UserID FROM
\* ships" when no whitelist zone is given; [] is returned when no id is left.
GeofenceEligibleRead ==
    /\ api_pc = "geofence_query"
    /\ ZonesRead = Len(Val(api_req).blacklist)
    /\ LET whitelisted_ship_ids ==
                WhitelistedShipIds(position_reports, Val(api_req).whitelist)
           final_ship_ids ==
                EligibleShipIds(ships, Val(api_req).whitelist, whitelisted_ship_ids,
                                BlacklistedSoFar)
       IN  IF final_ship_ids = {}
           THEN /\ api_pc' = "respond"
                /\ api_locals' = Null
                /\ api_result' =
                    Some([status |-> 200, body |-> <<>>, rows |-> <<>>,
                          blacklisted_ship_ids |-> BlacklistedSoFar,
                          whitelisted_ship_ids |-> whitelisted_ship_ids,
                          final_ship_ids |-> final_ship_ids])
           ELSE /\ api_pc' = "geofence_rows"
                /\ api_locals' =
                    Some([zones_read |-> ZonesRead,
                          blacklisted_ship_ids |-> BlacklistedSoFar,
                          whitelisted_ship_ids |-> whitelisted_ship_ids,
                          final_ship_ids |-> final_ship_ids])
                /\ api_result' = api_result
    /\ UNCHANGED <<ships, position_reports, ingester, api_req>>

\* Lines 139-151: the statement that fetches the rows, and the list.
GeofenceRowsRead ==
    /\ api_pc = "geofence_rows"
    /\ LET routes == RoutesOf(ships, position_reports, Val(api_req).start_time,
                              Val(api_req).end_time, Val(api_locals).final_ship_ids)
       IN  api_result' =
            Some([status |-> 200, body |-> routes.body, rows |-> routes.rows,
                  blacklisted_ship_ids |-> Val(api_locals).blacklisted_ship_ids,
                  whitelisted_ship_ids |-> Val(api_locals).whitelisted_ship_ids,
                  final_ship_ids |-> Val(api_locals).final_ship_ids])
    /\ api_pc' = "respond"
    /\ api_locals' = Null
    /\ UNCHANGED <<ships, position_reports, ingester, api_req>>

\* The response is sent and the handler's locals are gone.
ApiRespond ==
    /\ api_pc = "respond"
    /\ api_pc' = "idle"
    /\ api_req' = Null
    /\ api_result' = Null
    /\ api_locals' = Null
    /\ UNCHANGED <<ships, position_reports, ingester>>

Init ==
    /\ ships = <<>>
    /\ position_reports = {}
    /\ pc = "start"
    /\ message_counter = 0
    /\ last = "none"
    /\ conn_faults = 0
    /\ api_pc = "idle"
    /\ api_req = Null
    /\ api_result = Null
    /\ api_locals = Null

----------------------------------------------------------------------------
(* The ingestion loop on its own *)

NameAB == <<"a", "b">>
Times == {0, 179, 181}
Lats == {0, 1}
Lons == {0}

FaultyMsgs ==
    {BadJson, NoType,
     StaticMsg(Null, Some(NameAB), Null, Null, Null),
     PositionMsg(Null, Some(AisTime(0)), Some(0), Some(0)),
     PositionMsg(Some(1), Null, Some(0), Some(0)),
     PositionMsg(Some(1), Some(AisTime(0)), Null, Some(0)),
     PositionMsg(Some(1), Some(AisTime(0)), Some(0), Null)}

PositionMsgs(ids, times, lats, lons) ==
    {PositionMsg(Some(i), Some(t), Some(lat), Some(lon)) :
        i \in ids, t \in times, lat \in lats, lon \in lons}

StaticMsgs(ids, names, imos, callsigns, ship_types) ==
    {StaticMsg(Some(i), name, imo, cs, st) :
        i \in ids, name \in names, imo \in imos, cs \in callsigns,
        st \in ship_types}

IngestStatic ==
    StaticMsgs({1}, {Null, Some(NameAB)}, {Null, Some(7)}, {Null, Some("C")}, {Null})

IngestMsgs ==
    FaultyMsgs \cup {OtherMsg}
    \cup IngestStatic
    \cup PositionMsgs(ShipIds, {AisTime(t) : t \in Times} \cup {Garbled}, Lats, Lons)

Next ==
    \/ Start
    \/ Connect
    \/ Subscribe
    \/ HandleMessage(IngestMsgs, Times)
    \/ ConnectionError
    \/ ConnectionClosedOK
    \/ Backoff
    \/ Restart

Spec == Init /\ [][Next]_vars

----------------------------------------------------------------------------
(* The ingestion loop under fair scheduling: an await that can return does *)

LoopNows == {500, 501}

\* Static data that carries neither a name nor an IMO number.
LoopStatic == StaticMsgs(ShipIds, {Null}, {Null}, {Some("C"), Some("D")}, {Null, Some(70)})

LoopMsgs ==
    {BadJson, OtherMsg}
    \cup LoopStatic
    \cup PositionMsgs(ShipIds, {AisTime(0), Garbled}, {0}, {0})

NextLoop ==
    \/ Start
    \/ Connect
    \/ Subscribe
    \/ HandleMessage(LoopMsgs, LoopNows)
    \/ ConnectionError
    \/ ConnectionClosedOK
    \/ Backoff
    \/ Restart

\* init_db, websockets.connect, websocket.send and asyncio.sleep(10) each
\* return or raise in finite time.
SpecLoop ==
    /\ Init
    /\ [][NextLoop]_vars
    /\ WF_vars(Start)
    /\ WF_vars(Connect)
    /\ WF_vars(Subscribe)
    /\ WF_vars(Backoff)

----------------------------------------------------------------------------
(* The geofence handler over a database file that holds rows already *)

MaxFleet == 2
MaxGeoReports == 2

Fleet == 1..MaxFleet

\* The tables with at most n rows over the given rows, keys unique.
RECURSIVE ReportSets(_, _)
ReportSets(rows, n) ==
    IF n = 0 THEN {{}}
    ELSE LET smaller == ReportSets(rows, n - 1)
         IN  smaller \cup
             {p[1] \cup {p[2]} : p \in
                {x \in smaller \X rows :
                    ~Conflicts(x[1], x[2].timestamp, x[2].ShipID)}}

ShipTables(ids, rows) == UNION {[present -> rows] : present \in SUBSET ids}

ZoneA == [bounds |-> <<0, 0, 1, 1>>]
ZoneB == [bounds |-> <<1, 1, 2, 2>>]

\* Points in A only, in both, in B only, in neither.
GeoPoints == {<<0, 0>>, <<1, 1>>, <<2, 2>>, <<0, 2>>}
GeoTimes == {0, 3600}
GeoRows ==
    {Report(t, i, pt[1], pt[2]) : t \in GeoTimes, i \in Fleet, pt \in GeoPoints}

InitGeo ==
    /\ ships \in ShipTables(Fleet, {Row(Some(NameAB), Null, Null, Null)})
    /\ position_reports \in ReportSets(GeoRows, MaxGeoReports)
    /\ pc = "start"
    /\ message_counter = 0
    /\ last = "none"
    /\ conn_faults = 0
    /\ api_pc = "idle"
    /\ api_req = Null
    /\ api_result = Null
    /\ api_locals = Null

NextGeo ==
    \/ ApiGeofenceBegin({<<>>, <<ZoneA>>, <<ZoneA, ZoneB>>}, {<<>>, <<ZoneB>>},
                        {0, 1}, {0})
    \/ ApiGeofenceQuery
    \/ ApiRespond

SpecGeo == InitGeo /\ [][NextGeo]_vars

----------------------------------------------------------------------------
(* The positions handler beside the ingestion loop *)

NameABXY == <<"a", "b", "x", "y">>
TermABCD == <<"a", "b", "c", "d">>

ViewBox == <<0, 0, 1, 1>>
ViewTimes == {0, 7200}

\* Reports inside the box and north of it.
ViewRows == {Report(t, i, lat, 0) : t \in ViewTimes, i \in ShipIds, lat \in {0, 2}}

InitView ==
    /\ ships \in ShipTables(ShipIds, {Row(Some(NameABXY), Null, Null, Null),
                                      Row(Null, Null, Null, Null)})
    /\ position_reports \in ReportSets(ViewRows, MaxReports - 1)
    /\ pc = "start"
    /\ message_counter = 0
    /\ last = "none"
    /\ conn_faults = 0
    /\ api_pc = "idle"
    /\ api_req = Null
    /\ api_result = Null
    /\ api_locals = Null

ViewRequests ==
    {[form |-> "missing", box |-> <<>>], [form |-> "malformed", box |-> <<>>],
     [form |-> "ok", box |-> ViewBox]}

NextView ==
    \/ Start
    \/ Connect
    \/ Subscribe
    \/ HandleMessage(PositionMsgs(ShipIds, {AisTime(t) : t \in ViewTimes}, {0, 2}, {0}),
                     {0})
    \/ Backoff
    \/ ApiPositionsBegin(ViewRequests, {1, 24}, {<<>>, TermABCD}, {0})
    \/ ApiPositionsQuery
    \/ ApiRespond

SpecView == InitView /\ [][NextView]_vars

----------------------------------------------------------------------------
(* The positions handler over a database file that holds long trails *)

MaxTrail == 12

\* One report of entity i every 600 seconds, n of them, the latitude going
\* round 0, 1, 2.
TrailOf(i, n) == {Report(600 * k, i, k % 3, 0) : k \in 1..n}

InitTrail ==
    /\ ships \in ShipTables(1..2, {Row(Some(NameAB), Null, Null, Null)})
    /\ \E n \in 0..MaxTrail, m \in 0..2 :
            position_reports = TrailOf(1, n) \cup TrailOf(2, m)
    /\ pc = "start"
    /\ message_counter = 0
    /\ last = "none"
    /\ conn_faults = 0
    /\ api_pc = "idle"
    /\ api_req = Null
    /\ api_result = Null
    /\ api_locals = Null

TrailRequests ==
    {[form |-> "missing", box |-> <<>>], [form |-> "malformed", box |-> <<>>],
     [form |-> "ok", box |-> <<0, 0, 2, 0>>], [form |-> "ok", box |-> <<0, 0, 0, 0>>]}

NextTrail ==
    \/ ApiPositionsBegin(TrailRequests, {1, 24}, {<<>>}, {0})
    \/ ApiPositionsQuery
    \/ ApiRespond

SpecTrail == InitTrail /\ [][NextTrail]_vars

----------------------------------------------------------------------------
(* Both handlers over a database file that holds long trails and reports *)
(* of entities without a ships row                                       *)

ZoneSouth == [bounds |-> <<0, 0, 0, 0>>]
ZoneNorth == [bounds |-> <<2, 0, 2, 0>>]

NextQueries ==
    \/ ApiPositionsBegin(TrailRequests, {1, 24}, {<<>>}, {0})
    \/ ApiPositionsQuery
    \/ ApiGeofenceBegin({<<>>, <<ZoneSouth>>}, {<<>>, <<ZoneNorth>>}, {1, 24}, {0})
    \/ ApiGeofenceQuery
    \/ ApiRespond

SpecQueries == InitTrail /\ [][NextQueries]_vars

----------------------------------------------------------------------------
(* Both handlers beside the ingestion loop, the geofence query statement *)
(* by statement                                                          *)

ConcMsgs ==
    StaticMsgs(ShipIds, {Some(NameAB)}, {Null}, {Null}, {Null})
    \cup PositionMsgs(ShipIds, {AisTime(t) : t \in ViewTimes}, {0, 2}, {0})

NextConc ==
    \/ Start
    \/ Connect
    \/ Subscribe
    \/ HandleMessage(ConcMsgs, {0})
    \/ Backoff
    \/ ApiPositionsBegin(ViewRequests, {24}, {<<>>}, {0})
    \/ ApiPositionsQuery
    \/ ApiGeofenceBegin({<<>>, <<ZoneSouth>>}, {<<>>, <<ZoneNorth>>}, {24}, {0})
    \/ GeofenceBlacklistRead
    \/ GeofenceEligibleRead
    \/ GeofenceRowsRead
    \/ ApiRespond

SpecConc == InitView /\ [][NextConc]_vars

----------------------------------------------------------------------------
(* Claims about the ingestion loop *)

Abs(x) == IF x < 0 THEN -x ELSE x

HasReports(ship_id) == \E r \in position_reports : r.ShipID = ship_id

\* SELECT MAX(timestamp) ... for one ship
LastTimestamp(ship_id) ==
    CHOOSE t \in {r.timestamp : r \in {q \in position_reports : q.ShipID = ship_id}} :
        \A r \in position_reports : r.ShipID = ship_id => r.timestamp <= t

\* C1: any two reports stored for one entity are at least 180 seconds apart.
C1_RateLimit ==
    \A r1, r2 \in position_reports :
        (r1.ShipID = r2.ShipID /\ r1.timestamp # r2.timestamp)
            => Abs(r1.timestamp - r2.timestamp) >= 180

\* C2: the first message after a restart (message_counter = 0 with reports
\* in the table), for an entity with stored reports: at lastTimestamp + 179 it
\* is not persisted, at lastTimestamp + 181 it is.
C2_RestartSafety ==
    [][\A i \in ShipIds, t \in Times, lat \in Lats, lon \in Lons :
        (/\ message_counter = 0
         /\ HasReports(i)
         /\ Handle(PositionMsg(Some(i), Some(AisTime(t)), Some(lat), Some(lon)), TRUE, 0))
        => /\ t = LastTimestamp(i) + 179 => position_reports' = position_reports
           /\ t = LastTimestamp(i) + 181
                => Report(t, i, lat, lon) \in position_reports']_vars

UniqueKeys ==
    \A r1, r2 \in position_reports :
        (r1.ShipID = r2.ShipID /\ r1.timestamp = r2.timestamp) => r1 = r2

\* C3: at most one report per (entity, timestamp); handling a position report
\* whose (entity, timestamp) is stored already leaves the table as it is,
\* whatever its coordinates, and is no fault.
C3_InsertIdempotent ==
    /\ []UniqueKeys
    /\ [][\A r \in position_reports, lat \in Lats, lon \in Lons :
            Handle(PositionMsg(Some(r.ShipID), Some(AisTime(r.timestamp)),
                               Some(lat), Some(lon)), TRUE, 0)
            => /\ position_reports' = position_reports
               /\ last' \in {"duplicate_ignored", "conflict_ignored"}]_vars

\* A report was offered whose (entity, timestamp) was stored with other
\* coordinates, and the table kept the stored one.
C3_Witness == last = "conflict_ignored" /\ position_reports # {}

\* C4: an upsert for an entity that has a row leaves each column whose
\* incoming value is null as it was, whatever the other incoming values.
C4_UpsertNonDestructive ==
    [][\A m \in IngestStatic :
        (Val(m.UserID) \in DOMAIN ships /\ Handle(m, TRUE, 0))
        => LET old == ships[Val(m.UserID)]
               new == ships'[Val(m.UserID)]
           IN  /\ m.Name = Null => new.Name = old.Name
               /\ m.IMO = Null => new.IMO = old.IMO
               /\ m.CallSign = Null => new.CallSign = old.CallSign
               /\ m.ShipType = Null => new.ShipType = old.ShipType]_vars

Faulty(m, write_ok) == RaisesBeforeWrite(m) \/ (Writes(m) /\ ~write_ok)

\* C10: a message that raises (bad JSON, a missing key, a failing write)
\* leaves both tables as they were and the loop in place, on the same
\* connection, for the next message.
C10_FaultIsolated ==
    [][(/\ last' = "fault"
        /\ \E m \in IngestMsgs, write_ok \in BOOLEAN :
              Faulty(m, write_ok) /\ Handle(m, write_ok, 0))
        => /\ pc' = "recv"
           /\ ships' = ships
           /\ position_reports' = position_reports]_vars

\* A message was handled on a connection after a fault on that connection.
C10_Witness == pc = "recv" /\ conn_faults = 2 /\ last = "report_inserted"

----------------------------------------------------------------------------
(* Claims about the geofence query *)

GeofenceAnswered ==
    /\ api_pc = "respond"
    /\ api_req # Null
    /\ "whitelist" \in DOMAIN Val(api_req)
    /\ Val(api_result).status = 200

VisitedZone(id, zone) ==
    \E r \in position_reports : r.ShipID = id /\ InZone(r, zone)

ReportedIds == {r.ShipID : r \in position_reports}

\* C5: with whitelist zones given, an entity is in the whitelist set exactly
\* when each of the zones holds one of its stored reports, of any time.
C5_WhitelistConjunction ==
    (GeofenceAnswered /\ Val(api_req).whitelist # <<>>)
    => \A id \in ReportedIds \cup DOMAIN ships \cup Val(api_result).whitelisted_ship_ids :
        id \in Val(api_result).whitelisted_ship_ids
        <=> \A k \in 1..Len(Val(api_req).whitelist) :
                VisitedZone(id, Val(api_req).whitelist[k])

\* Zones A and B were given; one entity has been in A and never in B and is
\* not whitelisted, another has been in both and is.
C5_Witness ==
    /\ GeofenceAnswered
    /\ Val(api_req).whitelist = <<ZoneA, ZoneB>>
    /\ \E id \in ReportedIds :
        /\ VisitedZone(id, ZoneA) /\ ~VisitedZone(id, ZoneB)
        /\ id \notin Val(api_result).whitelisted_ship_ids
    /\ Val(api_result).whitelisted_ship_ids # {}

VisitedBlacklist(id) ==
    \E k \in 1..Len(Val(api_req).blacklist) :
        VisitedZone(id, Val(api_req).blacklist[k])

\* C6: the eligible set is the whitelist set (all of ships when no whitelist
\* zone is given) less the entities with a stored report in a blacklist zone,
\* and no entity of the result has a stored report in a blacklist zone.
C6_EligibleSet ==
    GeofenceAnswered
    => /\ Val(api_result).final_ship_ids =
            {id \in (IF Val(api_req).whitelist # <<>>
                     THEN Val(api_result).whitelisted_ship_ids
                     ELSE DOMAIN ships) : ~VisitedBlacklist(id)}
       /\ \A k \in 1..Len(Val(api_result).body) :
            ~VisitedBlacklist(Val(api_result).body[k].id)

\* No whitelist zone, one blacklist zone: an entity that has been in it is
\* left out and another is returned.
C6_Witness ==
    /\ GeofenceAnswered
    /\ Val(api_req).whitelist = <<>>
    /\ Val(api_req).blacklist # <<>>
    /\ \E id \in DOMAIN ships : VisitedBlacklist(id)
    /\ Val(api_result).body # <<>>

----------------------------------------------------------------------------
(* Claims about the positions query *)

PositionsAnswered ==
    /\ api_pc = "respond"
    /\ api_req # Null
    /\ "bounds" \in DOMAIN Val(api_req)
    /\ Val(api_result).status = 200

\* The reports of id no later than the request's end, and of them those with
\* fewer than ten later ones.
UpToEnd(id) ==
    {r \in position_reports :
        r.ShipID = id /\ r.timestamp <= Val(api_req).end_time}

MostRecentTen(id) ==
    {r \in UpToEnd(id) :
        Cardinality({q \in UpToEnd(id) : q.timestamp > r.timestamp}) < 10}

\* C7: each trail of the positions query has at most 10 points, in ascending
\* order of timestamp; they are the entity's most recent reports no later
\* than end, and the entity's lat and lon are the trail's last point.
C7_TrailCap ==
    PositionsAnswered
    => \A k \in 1..Len(Val(api_result).body) :
        LET entry == Val(api_result).body[k]
            got == RowsOf(Val(api_result).rows, entry.id)
        IN  /\ Len(entry.trail) \in 1..10
            /\ Len(got) = Len(entry.trail)
            /\ \A j \in 1..Len(got) :
                    entry.trail[j] = <<got[j].Latitude, got[j].Longitude>>
            /\ \A j \in 1..(Len(got) - 1) : got[j].timestamp < got[j + 1].timestamp
            /\ {got[j] : j \in 1..Len(got)} = MostRecentTen(entry.id)
            /\ <<entry.lat, entry.lon>> = entry.trail[Len(entry.trail)]

\* An entity with more than ten stored reports is returned with a trail of
\* ten points.
C7_Witness ==
    /\ PositionsAnswered
    /\ \E k \in 1..Len(Val(api_result).body) :
        /\ Len(Val(api_result).body[k].trail) = 10
        /\ Cardinality(UpToEnd(Val(api_result).body[k].id)) > 10

PositionsQueryStep == api_pc = "positions_query" /\ api_pc' = "respond"

InWindow(r) ==
    Between(r.timestamp, Val(api_req).start_time, Val(api_req).end_time)

\* The entities whose most recent report inside the window is inside the box.
LatestInWindowInBox ==
    {id \in DOMAIN ships :
        \E r \in position_reports :
            /\ r.ShipID = id
            /\ InWindow(r)
            /\ \A q \in position_reports :
                    (q.ShipID = id /\ InWindow(q)) => q.timestamp <= r.timestamp
            /\ InBounds(r, Val(api_req).bounds)}

ReturnedIds(result) == {result.body[k].id : k \in 1..Len(result.body)}

\* C8: without a search term the positions query returns an entity exactly
\* when the most recent of its reports inside [start, end] is inside the box.
C8_LatestInWindow ==
    [][(PositionsQueryStep /\ Val(api_req).search = <<>>)
        => /\ Val(api_result').status = 200
           /\ ReturnedIds(Val(api_result')) = LatestInWindowInBox]_vars

Matches(id, term) ==
    \/ Contains(str(id), term)
    \/ /\ ships[id].Name # Null
       /\ levenshtein_distance(Val(ships[id].Name), term)
            <= Min2(3, Len(term) \div 4 + 1)

\* C9: with a search term the positions query, when it answers, returns of the
\* entities whose latest report is inside the window and the box exactly those whose
\* identifier contains the term or whose name is within
\* min(3, len(term) div 4 + 1) edits of it.
C9_FuzzyTolerance ==
    [][(/\ PositionsQueryStep
        /\ Val(api_req).search # <<>>
        /\ Val(api_result').status = 200)
        => \A id \in LatestInWindowInBox :
                (\A r \in position_reports :
                    r.ShipID = id => r.timestamp <= Val(api_req).end_time)
                => (id \in ReturnedIds(Val(api_result'))
                        <=> Matches(id, Val(api_req).search))]_vars

----------------------------------------------------------------------------
(* Claims about the connection loop *)

\* C11: every connection attempt but the first of a process follows the
\* 10-second sleep: a step into "connect" starts at "start" or at "sleep".
C11_BackoffBeforeReconnect ==
    [][(pc' = "connect" /\ pc # "connect") => pc \in {"start", "sleep"}]_vars

\* C13: a position report whose time_utc does not parse is stored under the
\* current instant (unless that instant is taken for the entity), counts as
\* processed, and the loop stays on the connection.
C13_UnparsedTimestamp ==
    [][\A i \in ShipIds, now \in LoopNows :
        Handle(PositionMsg(Some(i), Some(Garbled), Some(0), Some(0)), TRUE, now)
        => /\ pc' = "recv"
           /\ last' \in {"report_inserted", "duplicate_ignored", "conflict_ignored"}
           /\ message_counter' = message_counter + 1
           /\ \E r \in position_reports' : r.ShipID = i /\ r.timestamp = now
           /\ ~Conflicts(position_reports, now, i)
                => position_reports' = position_reports \cup {Report(now, i, 0, 0)}]_vars

\* A report stands in the table under an instant of the clock, which no
\* message carried, and the loop waits for the next message.
C13_Witness ==
    /\ pc = "recv"
    /\ last = "report_inserted"
    /\ \E r \in position_reports : r.timestamp \in LoopNows

\* C18: the loop has no final state; after a failed connection attempt, a
\* failed subscription, a connection error or a normal close it comes to
\* connect again; and it enters the message loop only by sending the
\* subscription.
C18_LoopRecovers ==
    /\ [](pc \in {"start", "connect", "subscribe", "recv", "sleep"})
    /\ (last \in {"connect_failed", "subscribe_failed", "connection_error", "closed_ok"})
            ~> (pc = "connect")
    /\ [][(pc' = "recv" /\ pc # "recv")
            => (pc = "subscribe" /\ last' = "subscribed")]_vars

\* The sleep after a fault is over and the loop is about to connect again.
C18_Witness == pc = "connect" /\ last = "slept"

\* C19: static data with neither a name nor an IMO number, for an entity
\* that has a row, leaves the ships table as it is, whatever call sign and
\* type it carries.
C19_NullNameAndImoKeepsRow ==
    [][\A m \in LoopStatic :
        (Val(m.UserID) \in DOMAIN ships /\ Handle(m, TRUE, 0)) => ships' = ships]_vars

\* Static data with a call sign and neither name nor IMO number arrived for
\* an entity that has a row, and the row was kept.
C19_Witness ==
    /\ last = "ship_kept"
    /\ \E i \in DOMAIN ships : ships[i].CallSign # Null

----------------------------------------------------------------------------
(* Further claims about the positions query *)

\* C12: a request that reached the query is answered with a list, status
\* 200: the query raises for no store, search term or box.
C12_QueriesNeverRaise ==
    (api_pc = "respond" /\ api_req # Null) => Val(api_result).status = 200

\* C15: each point of a returned trail is of a report whose timestamp is
\* inside the request's window [start, end].
C15_TrailInsideWindow ==
    PositionsAnswered
    => \A k \in 1..Len(Val(api_result).rows) :
            Between(Val(api_result).rows[k].timestamp,
                    Val(api_req).start_time, Val(api_req).end_time)

----------------------------------------------------------------------------
(* Claims about the results of both queries *)

InRequestWindow(id) ==
    {r \in position_reports :
        /\ r.ShipID = id
        /\ Val(api_req).start_time <= r.timestamp
        /\ r.timestamp <= Val(api_req).end_time}

C20_ReturnedHaveShipsRow ==
    (api_pc = "respond" /\ api_req # Null /\ Val(api_result).status = 200)
    => \A k \in 1..Len(Val(api_result).body) :
            Val(api_result).body[k].id \in DOMAIN ships

\* An entity with reports inside the window and no ships row is left out of
\* an answer that returns another entity.
C20_Witness ==
    /\ api_pc = "respond"
    /\ api_req # Null
    /\ Val(api_result).status = 200
    /\ Val(api_result).body # <<>>
    /\ \E id \in ReportedIds \ DOMAIN ships : InRequestWindow(id) # {}

----------------------------------------------------------------------------
(* Claims about the store beside the queries *)

HandlerStep ==
    api_pc' # api_pc \/ api_req' # api_req \/ api_locals' # api_locals

\* C14: no step removes or changes a stored report or removes a ships row,
\* and a step of a request handler leaves both tables as they are.
C14_AppendOnly ==
    [][/\ position_reports \subseteq position_reports'
       /\ DOMAIN ships \subseteq DOMAIN ships'
       /\ HandlerStep => (ships' = ships /\ position_reports' = position_reports)]_vars

\* A report was stored beside a report the table held before, and a query
\* has been answered over the table.
C14_Witness ==
    /\ last = "report_inserted"
    /\ Cardinality(position_reports) > 1
    /\ api_pc = "respond"
    /\ api_req # Null

PointInZone(point, zone) ==
    /\ zone.bounds[1] <= point[1] /\ point[1] <= zone.bounds[3]
    /\ zone.bounds[2] <= point[2] /\ point[2] <= zone.bounds[4]

\* C17: no trail the geofence query returns holds a coordinate inside one of
\* the request's blacklist zones.
C17_NoBlacklistedPoint ==
    GeofenceAnswered
    => \A k \in 1..Len(Val(api_result).body) :
        \A j \in 1..Len(Val(api_result).body[k].trail) :
            \A z \in 1..Len(Val(api_req).blacklist) :
                ~PointInZone(Val(api_result).body[k].trail[j], Val(api_req).blacklist[z])

====
